---- MODULE Spec2Model ----
(***************************************************************************)
(* Model of src/data.py: SimpleSampler (construction, __call__ with its    *)
(* rejection loop and the add_data closure) and RegionDataset              *)
(* (__getitem__).                                                          *)
(*                                                                         *)
(* Numbers.  Python computes in float64; the model computes the same       *)
(* expressions exactly, in fixed point.  A length v is held as v * Unit    *)
(* and an area a as a * Unit * Unit, where Unit is chosen so that every    *)
(* division the code performs on the modelled inputs (the /2 of the        *)
(* centre, mean and half size, and the factor 1.05 ** e for a scale draw   *)
(* e in ScaleDraws) is exact.  A quotient is kept as the pair              *)
(* [num, den]; den = 0 with num = 0 is numpy's nan (0.0/0.0), den = 0      *)
(* with num > 0 is numpy's inf.  Thresholds are held in tenths.            *)
(***************************************************************************)
EXTENDS Integers, Sequences, FiniteSets, TLC

\* COEF_SCALE = 1.05 = COEF_SCALE_NUM / COEF_SCALE_DEN
COEF_SCALE_NUM == 21
COEF_SCALE_DEN == 20

\* fixed-point unit of a length: 2 * 20 * 21
Unit == 2 * COEF_SCALE_NUM * COEF_SCALE_DEN

\* cap on the number of iterations of "while True" that a behaviour follows
MaxDraws == 3

None == "None"

\* ------------------------------------------------------------------ inputs
\* boxes (min_x, min_y, max_x, max_y) given to the constructor and to the call
Boxes == { <<0, 0, 10, 10>>, <<0, 0, 2, 2>>, <<0, 0, 0, 0>>, <<1, 1, 3, 2>> }

\* (pos, neg) quotas
Nums == { <<0, 0>>, <<0, 1>>, <<1, 0>>, <<1, 1>>, <<2, 0>> }

\* (pos, neg) IoU thresholds in tenths: the default [.7, .5] and the swapped pair
Thresholds == { <<7, 5>>, <<5, 7>> }

\* the values numpy.random.normal(ctr, sigma) - ctr can take where sigma > 0
OffsetDraws == { <<0, 0>>, <<1, 1>>, <<1, 0>>, <<2, 0>>, <<2, 2>>, <<3, 0>>, <<0, -3>> }

\* the values numpy.random.normal(scale=sigma_s) can take where sigma_s > 0
ScaleDraws == { -1, 0, 1 }

\* the three transform slots: none configured, or all three configured
TransformSlots == { <<None, None, None>>, <<"tf", "tf_pos", "tf_neg">> }

VARIABLES
    pc,                     \* position in SimpleSampler.__call__ / after it
    isize, num, thres_pos, thres_neg, sigma_t, sigma_s,   \* SimpleSampler fields
    transforms,             \* <<transforms, target_transforms_pos, target_transforms_neg>>
    img, lt, br, ctr, sz, area, sigma,                    \* __call__ arguments and locals
    data, remain,           \* the closure state of add_data
    draws,                  \* number of iterations started
    expo,                   \* the scale draw of the current iteration
    nctr, nsize_2, nlt, nbr,
    path,                   \* branch the current candidate took: "none", "disjoint", "iou"
    cls,                    \* outcome of the iou test: "none", "pos", "neg", "discard"
    olt, obr, area_over, area_add, area_union, iou,
    view,                   \* the RegionDataset returned, None before
    got,                    \* the result of the last __getitem__ (index 0: none yet)
    first                   \* index -> result of the first __getitem__(index)

samplerVars == <<isize, num, thres_pos, thres_neg, sigma_t, sigma_s, transforms>>
callVars == <<img, lt, br, ctr, sz, area, sigma>>
candVars == <<expo, nctr, nsize_2, nlt, nbr>>
iouVars == <<olt, obr, area_over, area_add, area_union, iou>>
viewVars == <<view, got, first>>

vars == <<pc, samplerVars, callVars, data, remain, draws, candVars, path, cls,
          iouVars, viewVars>>

\* ------------------------------------------------------------------ helpers
Zero2 == <<0, 0>>

Max(a, b) == IF a >= b THEN a ELSE b
Min(a, b) == IF a <= b THEN a ELSE b

\* numpy.prod of a 2-vector
Prod(v) == v[1] * v[2]

\* numpy.mean of a 2-vector (of fixed-point lengths, whose sum is even)
Mean(v) == (v[1] + v[2]) \div 2

\* a box as its corners lt, br in fixed point (bbox.reshape([2, 2]))
Lt(b) == <<b[1] * Unit, b[2] * Unit>>
Br(b) == <<b[3] * Unit, b[4] * Unit>>

\* COEF_SCALE ** e as a fraction
RECURSIVE Pow(_, _)
Pow(b, e) == IF e = 0 THEN 1 ELSE b * Pow(b, e - 1)
ScaleNum(e) == IF e >= 0 THEN Pow(COEF_SCALE_NUM, e) ELSE Pow(COEF_SCALE_DEN, -e)
ScaleDen(e) == IF e >= 0 THEN Pow(COEF_SCALE_DEN, e) ELSE Pow(COEF_SCALE_NUM, -e)

\* variant of NSize2: the half size taken from the box of the call
NSize2FromCallBox(e) ==
    [k \in 1..2 |-> ((br[k] - lt[k]) * ScaleNum(e)) \div (ScaleDen(e) * 2)]

\* self.isize * (COEF_SCALE ** e) / 2
NSize2(e) == [k \in 1..2 |-> (isize[k] * ScaleNum(e)) \div (ScaleDen(e) * 2)]

\* variant of Disjoint: non-strict comparisons
DisjointNonStrict(l, b, nl, nb) ==
    \/ \E k \in 1..2 : b[k] <= nl[k]
    \/ \E k \in 1..2 : l[k] >= nb[k]

\* (br < nlt).any() or (lt > nbr).any()
Disjoint(l, b, nl, nb) ==
    \/ \E k \in 1..2 : b[k] < nl[k]
    \/ \E k \in 1..2 : l[k] > nb[k]

\* a / b in float64: [num, den], with 0/0 = nan and x/0 = inf kept as they are
Div(a, b) == [num |-> a, den |-> b]
IsNaN(q) == q.den = 0 /\ q.num = 0

\* q >= t/10 and q < t/10 as float64 compares them (every comparison with nan is false)
Ge(q, t) == IF q.den = 0 THEN q.num > 0 ELSE q.num * 10 >= t * q.den
Less(q, t) == IF q.den = 0 THEN FALSE ELSE q.num * 10 < t * q.den

\* variant of AllZero: any(remain == 0)
AnyZero(r) == r[1] = 0 \/ r[2] = 0

\* all(remain == 0)
AllZero(r) == r[1] = 0 /\ r[2] = 0

\* numpy.concatenate([nlt, nbr])
Concat(nl, nb) == <<nl[1], nl[2], nb[1], nb[2]>>

\* idx = int(not is_pos)
Idx(is_pos) == IF is_pos THEN 1 ELSE 2

\* add_data(is_pos, nlt, nbr): the closure's effect on remain and data
add_data(is_pos, nl, nb) ==
    IF remain[Idx(is_pos)] = 0
    THEN UNCHANGED <<remain, data>>
    ELSE /\ remain' = [remain EXCEPT ![Idx(is_pos)] = @ - 1]
         /\ data' = Append(data, <<is_pos, Concat(nl, nb)>>)

\* no __getitem__ has returned yet
NoResult == [index |-> 0, img |-> None, target |-> None]

\* ------------------------------------------------------------------ Init
\* SimpleSampler.__init__: the state after construction
Init ==
    /\ pc = "idle"
    /\ \E b \in Boxes : isize = [k \in 1..2 |-> Br(b)[k] - Lt(b)[k]]
    /\ num \in Nums
    /\ \E t \in Thresholds : thres_pos = t[1] /\ thres_neg = t[2]
    /\ sigma_t = <<3, 3>>
    /\ sigma_s = 5
    /\ transforms \in TransformSlots
    /\ img = None /\ lt = Zero2 /\ br = Zero2 /\ ctr = Zero2
    /\ sz = 0 /\ area = 0 /\ sigma = Zero2
    /\ data = <<>> /\ remain = Zero2 /\ draws = 0
    /\ expo = 0 /\ nctr = Zero2 /\ nsize_2 = Zero2 /\ nlt = Zero2 /\ nbr = Zero2
    /\ path = "none" /\ cls = "none"
    /\ olt = Zero2 /\ obr = Zero2
    /\ area_over = 0 /\ area_add = 0 /\ area_union = 0 /\ iou = Div(0, 1)
    /\ view = None /\ got = NoResult /\ first = [i \in {} |-> NoResult]

\* ------------------------------------------------------------------ __call__
\* lines 130-140: decompose the box, start with an empty list and the full quotas.
\* area = numpy.prod(sz) is the product over the scalar sz, that is sz itself;
\* as an area in fixed point the number sz is sz * Unit * Unit = Mean(..) * Unit.
Call ==
    /\ pc = "idle"
    /\ \E b \in Boxes :
        /\ lt' = Lt(b)
        /\ br' = Br(b)
        /\ ctr' = [k \in 1..2 |-> (Lt(b)[k] + Br(b)[k]) \div 2]
        /\ sz' = Mean([k \in 1..2 |-> Br(b)[k] - Lt(b)[k]])
    /\ area' = sz' * Unit
    /\ sigma' = [k \in 1..2 |-> sigma_t[k] * sz']
    /\ img' = "img"
    /\ data' = <<>>
    /\ remain' = num
    /\ pc' = "gen"
    /\ UNCHANGED <<samplerVars, draws, candVars, path, cls, iouVars, viewVars>>

\* lines 152-157: draw a centre and a scale, form the candidate.  A normal draw
\* with standard deviation 0 is its mean.  The locals of the previous iteration
\* are dead here (each is rebound before it is read) and are cleared.
GenRegion ==
    /\ pc = "gen"
    /\ draws < MaxDraws
    /\ \E d \in OffsetDraws, e \in ScaleDraws :
        /\ \A k \in 1..2 : sigma[k] = 0 => d[k] = 0
        /\ sigma_s = 0 => e = 0
        /\ expo' = e
        /\ nctr' = [k \in 1..2 |-> ctr[k] + d[k] * Unit]
        /\ nsize_2' = NSize2(e)
    /\ nlt' = [k \in 1..2 |-> nctr'[k] - nsize_2'[k]]
    /\ nbr' = [k \in 1..2 |-> nctr'[k] + nsize_2'[k]]
    /\ draws' = draws + 1
    /\ path' = "none" /\ cls' = "none"
    /\ olt' = Zero2 /\ obr' = Zero2
    /\ area_over' = 0 /\ area_add' = 0 /\ area_union' = 0 /\ iou' = Div(0, 1)
    /\ pc' = "overlap"
    /\ UNCHANGED <<samplerVars, callVars, data, remain, viewVars>>

\* lines 160-162: the candidate is disjoint: add_data(False, ..); continue
OverlapDisjoint ==
    /\ pc = "overlap"
    /\ Disjoint(lt, br, nlt, nbr)
    /\ add_data(FALSE, nlt, nbr)
    /\ path' = "disjoint"
    /\ cls' = "neg"
    /\ pc' = "gen"
    /\ UNCHANGED <<samplerVars, callVars, draws, candVars, iouVars, viewVars>>

\* lines 160, 165-172: otherwise compute the iou
Iou ==
    /\ pc = "overlap"
    /\ ~Disjoint(lt, br, nlt, nbr)
    /\ olt' = [k \in 1..2 |-> Max(lt[k], nlt[k])]
    /\ obr' = [k \in 1..2 |-> Min(br[k], nbr[k])]
    /\ area_over' = Prod([k \in 1..2 |-> obr'[k] - olt'[k]])
    /\ area_add' = Prod(nsize_2) * 4
    /\ area_union' = area + area_add' - area_over'
    /\ iou' = Div(area_over', area_union')
    /\ path' = "iou"
    /\ pc' = "ioutest"
    /\ UNCHANGED <<samplerVars, callVars, data, remain, draws, candVars, cls, viewVars>>

\* variant of IouTest: the negative threshold tested first
IouTestNegFirst ==
    /\ pc = "ioutest"
    /\ IF Less(iou, thres_neg)
       THEN add_data(FALSE, nlt, nbr) /\ cls' = "neg"
       ELSE IF Ge(iou, thres_pos)
            THEN add_data(TRUE, nlt, nbr) /\ cls' = "pos"
            ELSE UNCHANGED <<remain, data>> /\ cls' = "discard"
    /\ pc' = "breaker"
    /\ UNCHANGED <<samplerVars, callVars, draws, candVars, path, iouVars, viewVars>>

\* lines 175-178: the iou test
IouTest ==
    /\ pc = "ioutest"
    /\ IF Ge(iou, thres_pos)
       THEN add_data(TRUE, nlt, nbr) /\ cls' = "pos"
       ELSE IF Less(iou, thres_neg)
            THEN add_data(FALSE, nlt, nbr) /\ cls' = "neg"
            ELSE UNCHANGED <<remain, data>> /\ cls' = "discard"
    /\ pc' = "breaker"
    /\ UNCHANGED <<samplerVars, callVars, draws, candVars, path, iouVars, viewVars>>

\* lines 181-182, 152: the loop breaker is false, next iteration
LoopAgain ==
    /\ pc = "breaker"
    /\ ~AllZero(remain)
    /\ pc' = "gen"
    /\ UNCHANGED <<samplerVars, callVars, data, remain, draws, candVars, path, cls,
                   iouVars, viewVars>>

\* lines 181-190: break, and return RegionDataset(img, data, transforms...)
\* (RegionDataset.__init__, lines 74-78)
Return ==
    /\ pc = "breaker"
    /\ AllZero(remain)
    /\ view' = [img |-> img, crops |-> data, transforms |-> transforms[1],
                target_transforms_pos |-> transforms[2],
                target_transforms_neg |-> transforms[3]]
    /\ pc' = "done"
    /\ UNCHANGED <<samplerVars, callVars, data, remain, draws, candVars, path, cls,
                   iouVars, got, first>>

\* ------------------------------------------------------------------ RegionDataset
\* an injected function applied to a value: uninterpreted
Apply(f, x) == <<f, x>>

\* self.img.crop(tuple(bbox))
Crop(im, bbox) == <<"crop", im, bbox>>

\* RegionDataset.__getitem__(index): the pair returned
GetItem(v, index) ==
    LET is_pos == v.crops[index][1]
        bbox == v.crops[index][2]
        im0 == Crop(v.img, bbox)
        im == IF v.transforms # None THEN Apply(v.transforms, im0) ELSE im0
        target == IF is_pos /\ v.target_transforms_pos # None
                  THEN Apply(v.target_transforms_pos, bbox)
                  ELSE IF ~is_pos /\ v.target_transforms_neg # None
                       THEN Apply(v.target_transforms_neg, bbox)
                       ELSE bbox
    IN  [index |-> index, img |-> im, target |-> target]

\* variant of ViewAfterGet: the label computed is stored back into the list
ViewAfterGetStore(v, index) ==
    [v EXCEPT !.crops[index] = <<v.crops[index][1], GetItem(v, index).target>>]

\* the effect of __getitem__ on the dataset: none
ViewAfterGet(v, index) == v

\* __len__
Length(v) == Len(v.crops)

Get ==
    /\ pc = "done"
    /\ \E index \in 1..Length(view) :
        /\ got' = GetItem(view, index)
        /\ view' = ViewAfterGet(view, index)
        /\ first' = IF index \in DOMAIN first
                    THEN first
                    ELSE [i \in DOMAIN first \cup {index} |->
                            IF i = index THEN got' ELSE first[i]]
    /\ UNCHANGED <<pc, samplerVars, callVars, data, remain, draws, candVars, path, cls,
                   iouVars>>

Next ==
    \/ Call
    \/ GenRegion
    \/ OverlapDisjoint
    \/ Iou
    \/ IouTest
    \/ LoopAgain
    \/ Return
    \/ Get

Spec == Init /\ [][Next]_vars

\* ================================================================== claims
\* the box a candidate is recorded as
Cand == Concat(nlt, nbr)

\* the positive / negative entries of a candidate list
Positives(c) == {i \in DOMAIN c : c[i][1]}
Negatives(c) == {i \in DOMAIN c : ~c[i][1]}

\* the two boxes share no area: on some axis the overlap interval is empty or a point
ZeroOverlap(l, b, nl, nb) == \E k \in 1..2 : Min(b[k], nb[k]) - Max(l[k], nl[k]) <= 0

\* the two boxes are apart, with a gap, on some axis
Separated(l, b, nl, nb) == \E k \in 1..2 : b[k] < nl[k] \/ nb[k] < l[k]

\* the iou lies in thres_pos <= iou < thres_neg
InBand(q) == Ge(q, thres_pos) /\ Less(q, thres_neg)

\* C1: whenever sample returns, the view's candidate list has exactly
\* num_pos + num_neg entries, num_pos of them positive and num_neg negative.
C1_QuotasExact ==
    pc = "done" =>
        /\ Len(view.crops) = num[1] + num[2]
        /\ Cardinality(Positives(view.crops)) = num[1]
        /\ Cardinality(Negatives(view.crops)) = num[2]

C1_Witness ==
    /\ pc = "done"
    /\ num = <<1, 1>>
    /\ Len(view.crops) = 2
    /\ draws = MaxDraws

\* C2: for a reference box of positive width and height, a candidate identical
\* to it (sampler constructed with that box) gets an IoU of exactly 1.
C2_IdenticalIoUOne ==
    ( /\ path = "iou"
      /\ nlt = lt /\ nbr = br
      /\ \A k \in 1..2 : br[k] - lt[k] > 0 /\ isize[k] = br[k] - lt[k] )
    => (iou.den # 0 /\ iou.num = iou.den)

\* C3: reference (0,0,10,10), thresholds 0.7 / 0.5, candidate (1,1,11,11): the
\* iou test adds it to neither class and changes neither remaining quota.
C3_DiscardBand ==
    [][ ( /\ pc = "ioutest"
          /\ lt = Lt(<<0, 0, 10, 10>>) /\ br = Br(<<0, 0, 10, 10>>)
          /\ thres_pos = 7 /\ thres_neg = 5
          /\ nlt = Lt(<<1, 1, 11, 11>>) /\ nbr = Br(<<1, 1, 11, 11>>) )
        => (data' = data /\ remain' = remain) ]_vars

\* C4: with quotas [0, 0] sample performs no random draw at all.
C4_NoDrawZeroQuota == num = <<0, 0>> => draws = 0

\* C5 (as claimed): the size of every candidate is the size of the box passed to
\* the call times 1.05 ** (scale draw).
C5_SizeFromCallBox ==
    draws > 0 =>
        \A k \in 1..2 : (nbr[k] - nlt[k]) * ScaleDen(expo) = (br[k] - lt[k]) * ScaleNum(expo)

\* C5 (amended): the size of every candidate is the size of the box given to the
\* constructor (self.isize) times 1.05 ** (scale draw), whatever box is passed
\* to the call.
C5_SizeFromInitBox ==
    draws > 0 =>
        \A k \in 1..2 : (nbr[k] - nlt[k]) * ScaleDen(expo) = isize[k] * ScaleNum(expo)

C5_Witness ==
    /\ draws > 0
    /\ expo = 1
    /\ isize = <<2 * Unit, 2 * Unit>>
    /\ br = <<10 * Unit, 10 * Unit>> /\ lt = Zero2

\* C6 (as claimed): for every pair with zero overlap, touching pairs included,
\* the disjointness predicate fires, the candidate is offered as a negative and
\* the IoU is never computed.
C6_ZeroOverlapSkipsIoU ==
    (path # "none" /\ ZeroOverlap(lt, br, nlt, nbr)) => (path = "disjoint" /\ cls = "neg")

\* C6 (amended): for a pair with zero overlap, if the boxes are apart on some
\* axis the disjointness predicate fires and the candidate is offered to
\* add_data as a negative without an IoU; if they only touch, the predicate
\* does not fire and the IoU branch runs with an intersection area of exactly 0.
C6_ZeroOverlapAmended ==
    (path # "none" /\ ZeroOverlap(lt, br, nlt, nbr)) =>
        IF Separated(lt, br, nlt, nbr)
        THEN /\ path = "disjoint"
             /\ iou = Div(0, 1)
             /\ \/ remain[2] = 0
                \/ (data # <<>> /\ data[Len(data)] = <<FALSE, Cand>>)
        ELSE /\ path = "iou"
             /\ area_over = 0

C6_Witness ==
    /\ path = "iou"
    /\ ZeroOverlap(lt, br, nlt, nbr)
    /\ ~Separated(lt, br, nlt, nbr)
    /\ br[1] - lt[1] > 0
    /\ area_over = 0

\* C7: when the union area is zero the IoU is 0, not an undefined value, and the
\* candidate is classified negative whenever thresh_neg > 0.
C7_ZeroUnionIoUZero ==
    (path = "iou" /\ area_union = 0) =>
        /\ ~IsNaN(iou) /\ iou.num = 0
        /\ (pc = "breaker" /\ thres_neg > 0) => cls = "neg"

\* C8 (as claimed): with thresh_pos < thresh_neg a candidate whose IoU lies in
\* thresh_pos <= IoU < thresh_neg is appended under neither class and consumes
\* neither quota.
C8_BandDiscarded ==
    [][ (pc = "ioutest" /\ thres_pos < thres_neg /\ InBand(iou))
        => (data' = data /\ remain' = remain) ]_vars

\* C8 (amended): with thresh_pos < thresh_neg a candidate whose IoU lies in
\* thresh_pos <= IoU < thresh_neg is classified positive: it is appended as a
\* positive and consumes one positive slot while one remains, and is dropped
\* otherwise; it never consumes a negative slot.
C8_BandPositive ==
    [][ (pc = "ioutest" /\ thres_pos < thres_neg /\ InBand(iou))
        => IF remain[1] > 0
           THEN /\ data' = Append(data, <<TRUE, Cand>>)
                /\ remain' = <<remain[1] - 1, remain[2]>>
           ELSE data' = data /\ remain' = remain ]_vars

C8_Witness ==
    /\ pc = "breaker"
    /\ thres_pos < thres_neg
    /\ InBand(iou)
    /\ cls = "pos"
    /\ data # <<>> /\ data[Len(data)] = <<TRUE, Cand>>

\* C9: __getitem__ mutates nothing (image, candidate list and the three
\* transform slots stay as constructed), every index yields what it yielded on
\* its first access, and with no transforms the crop rectangle and the label
\* are the candidate's box.
C9_GetPure ==
    pc = "done" =>
        /\ view = [img |-> img, crops |-> data, transforms |-> transforms[1],
                   target_transforms_pos |-> transforms[2],
                   target_transforms_neg |-> transforms[3]]
        /\ got.index # 0 =>
            /\ got = first[got.index]
            /\ transforms = <<None, None, None>> =>
                /\ got.img = Crop(img, data[got.index][2])
                /\ got.target = data[got.index][2]

C9_Witness ==
    /\ pc = "done"
    /\ transforms = <<None, None, None>>
    /\ got.index = 1
    /\ DOMAIN first = {1, 2}

\* C10: the iteration whose accepted candidate brings the last non-zero
\* remaining counter to zero ends the loop, whichever path accepted it: it does
\* not go back to drawing.
C10_LastSlotEndsLoop ==
    [][ (~AllZero(remain) /\ AllZero(remain')) => pc' # "gen" ]_vars

====
